---- MODULE Spec2Model ----
(***************************************************************************)
(* A model of GNU Wget's file retrieval layer (src/src/retr.c):            *)
(*   downloaded_increase / downloaded_exceeds_quota  (download accounting) *)
(*   sleep_between_retrievals                        (retry backoff)       *)
(*   get_contents                                    (streaming transfer)  *)
(*   retrieve_url                                    (URL orchestration)   *)
(* The program is single threaded; each component is checked under its own *)
(* specification, in which the other components stay in their initial      *)
(* state.                                                                  *)
(***************************************************************************)
EXTENDS Integers, Sequences, FiniteSets, TLC

VARIABLES
  \* ---- download accounting (struct options, retr.c:470-500)
  opt_downloaded,           \* opt.downloaded, a VERY_LONG_TYPE (unsigned)
  opt_downloaded_overflow,  \* opt.downloaded_overflow
  opt_quota,                \* opt.quota
  exceeds_ret,              \* last value returned by downloaded_exceeds_quota
  acct_op,                  \* the accounting operation that ran last
  true_sum,                 \* ghost: unbounded sum of the arguments added so far
  \* ---- retry backoff (retr.c:508-531)
  first_retrieval,          \* static int first_retrieval
  opt_wait,                 \* opt.wait
  opt_waitretry,            \* opt.waitretry
  last_sleep,               \* ghost: argument of sleep() in the last call, NoSleep if none
  last_count,               \* ghost: COUNT of the last call
  sleep_calls,              \* ghost: number of calls made so far
  \* ---- get_contents (retr.c:78-147)
  gc_pc,                    \* "idle", "flush" (line 93), "loop" (line 112), "returned"
  gc_restval,               \* RESTVAL
  gc_expected,              \* EXPECTED
  gc_use_expected,          \* USE_EXPECTED
  opt_verbose,              \* opt.verbose
  rbuf_left,                \* bytes buffered in RBUF (rbuf->buffer_left)
  gc_len,                   \* *len
  gc_res,                   \* res
  gc_need_flush,            \* need_flush
  fp_error,                 \* ferror (fp)
  gc_ret,                   \* the value returned
  pg_created,               \* calls of progress_create, with their arguments
  pg_total,                 \* sum of the amounts given to progress_update
  pg_finished,              \* number of calls of progress_finish
  gc_reads,                 \* ghost: the reads made: [len, amount, res]
  gc_written,               \* ghost: bytes written to fp without error
  write_failed,             \* ghost: a write or flush of fp has failed
  io_after_fail,            \* ghost: rbuf_flush or a read ran after a failed write
  \* ---- retrieve_url (retr.c:194-407)
  ru_pc,                    \* "idle", "redirected" (line 230), "looped" (line 309),
                            \* "count" (line 404), "returned"
  ru_url,                   \* url, the text of the current URL
  ru_u,                     \* u->url, the canonical form of the current URL
  redirections,             \* the string set of the URLs seen, or NullTable
  ru_result,                \* result
  ru_mynewloc,              \* mynewloc
  ru_local_file,            \* local_file
  ru_dt,                    \* *dt, the set of the flags that are set
  ru_file,                  \* *file, as the caller sees it
  ru_newloc,                \* *newloc, as the caller sees it
  global_download_count,    \* global_download_count
  opt_recursive,            \* opt.recursive
  opt_use_proxy,            \* opt.use_proxy
  proxy_env,                \* the proxy configured for each scheme (getproxy)
  no_proxy_ok,              \* no_proxy_match (host, opt.no_proxy)
  ru_exit,                  \* ghost: the return statement taken
  ru_loops,                 \* ghost: the protocol loops invoked by this call
  ru_registered,            \* ghost: the register_* calls made by this call
  ru_count0,                \* ghost: global_download_count at the call
  ru_ncalls,                \* ghost: number of calls of retrieve_url so far
  \* ---- retrieve_from_file (retr.c:414-458)
  rf_pc,                    \* "idle", "test" (line 425), "retrieving" (line 435),
                            \* "returned"
  rf_status,                \* status
  rf_count,                 \* *count
  rf_n,                     \* the number of URLs in url_list
  rf_left,                  \* the number of URLs from cur_url to the end of the list
  opt_delete_after,         \* opt.delete_after
  rf_calls,                 \* ghost: for each retrieve_url call made, whether the
                            \* quota was exceeded when it was made
  rf_items                  \* ghost: the items processed: [status, recursed, deleted]

acctVars  == <<opt_downloaded, opt_downloaded_overflow, opt_quota, exceeds_ret,
               acct_op, true_sum>>
sleepVars == <<first_retrieval, opt_wait, opt_waitretry, last_sleep, last_count,
               sleep_calls>>

drainVars == <<gc_pc, gc_restval, gc_expected, gc_use_expected, opt_verbose,
               rbuf_left, gc_len, gc_res, gc_need_flush, fp_error, gc_ret,
               pg_created, pg_total, pg_finished, gc_reads, gc_written,
               write_failed, io_after_fail>>

retrVars == <<ru_pc, ru_url, ru_u, redirections, ru_result, ru_mynewloc,
              ru_local_file, ru_dt, ru_file, ru_newloc, global_download_count,
              opt_recursive, opt_use_proxy, proxy_env, no_proxy_ok, ru_exit,
              ru_loops, ru_registered, ru_count0, ru_ncalls>>

batchVars == <<rf_pc, rf_status, rf_count, rf_n, rf_left, opt_delete_after,
               rf_calls, rf_items>>

vars == <<acctVars, sleepVars, drainVars, retrVars, batchVars>>

MIN(i, j) == IF i <= j THEN i ELSE j

(***************************************************************************)
(* Download accounting.                                                    *)
(***************************************************************************)

\* Width, in bits, of VERY_LONG_TYPE in the model.
CounterBits == 4

\* ~((VERY_LONG_TYPE)0)
MaxCounter == 2^CounterBits - 1

\* Unsigned arithmetic of VERY_LONG_TYPE.
Wrap(x) == x % (2^CounterBits)

\* A bug: the wrapped value is kept and the overflow is not latched.
downloaded_increase_nolatch(by_how_much) ==
  /\ opt_downloaded' = IF opt_downloaded_overflow THEN opt_downloaded
                       ELSE Wrap(opt_downloaded + by_how_much)
  /\ UNCHANGED opt_downloaded_overflow

downloaded_increase(by_how_much) ==
  IF opt_downloaded_overflow
  THEN UNCHANGED <<opt_downloaded, opt_downloaded_overflow>>
  ELSE LET old == opt_downloaded
           new == Wrap(opt_downloaded + by_how_much)
       IN  IF new < old
           THEN /\ opt_downloaded_overflow' = TRUE
                /\ opt_downloaded' = MaxCounter
           ELSE /\ opt_downloaded' = new
                /\ UNCHANGED opt_downloaded_overflow

\* A bug: >= for >.
downloaded_exceeds_quota_ge ==
  IF opt_quota = 0 THEN 0
  ELSE IF opt_downloaded_overflow THEN 0
  ELSE IF opt_downloaded >= opt_quota THEN 1 ELSE 0

downloaded_exceeds_quota ==
  IF opt_quota = 0 THEN 0
  ELSE IF opt_downloaded_overflow THEN 0
  ELSE IF opt_downloaded > opt_quota THEN 1 ELSE 0

NoRet == -1

\* A call downloaded_increase (by_how_much), by_how_much an unsigned long.
CallIncrease ==
  \E by_how_much \in 0..MaxCounter :
    /\ downloaded_increase(by_how_much)
    /\ true_sum' = IF opt_downloaded_overflow THEN true_sum
                   ELSE true_sum + by_how_much
    /\ acct_op' = "increase"
    /\ UNCHANGED <<opt_quota, exceeds_ret>>

\* A call downloaded_exceeds_quota ().
CallExceedsQuota ==
  /\ exceeds_ret' = downloaded_exceeds_quota
  /\ acct_op' = "exceeds"
  /\ UNCHANGED <<opt_downloaded, opt_downloaded_overflow, opt_quota, true_sum>>

(***************************************************************************)
(* Retry backoff.                                                          *)
(***************************************************************************)

MaxWait == 5        \* largest value of opt.wait and opt.waitretry tried
MaxCount == 6       \* largest COUNT tried
MaxSleepCalls == 3  \* calls of sleep_between_retrievals per run

NoSleep == -1       \* sleep() was not called

\* A bug: the first retrieval is not exempted.
sleep_seconds_nofirst(first, count) ==
  IF opt_wait # 0 \/ opt_waitretry # 0
  THEN IF opt_waitretry # 0 /\ count > 1
       THEN IF count <= opt_waitretry THEN count - 1 ELSE opt_waitretry
       ELSE IF opt_wait # 0 THEN opt_wait ELSE NoSleep
  ELSE NoSleep

\* A bug: < for <=.
sleep_seconds_lt(first, count) ==
  IF ~first /\ (opt_wait # 0 \/ opt_waitretry # 0)
  THEN IF opt_waitretry # 0 /\ count > 1
       THEN IF count < opt_waitretry THEN count - 1 ELSE opt_waitretry
       ELSE IF opt_wait # 0 THEN opt_wait ELSE NoSleep
  ELSE NoSleep

\* The argument of the sleep() that sleep_between_retrievals (count) performs
\* with first_retrieval = first, NoSleep if it performs none.
sleep_seconds(first, count) ==
  IF ~first /\ (opt_wait # 0 \/ opt_waitretry # 0)
  THEN IF opt_waitretry # 0 /\ count > 1
       THEN IF count <= opt_waitretry THEN count - 1 ELSE opt_waitretry
       ELSE IF opt_wait # 0 THEN opt_wait ELSE NoSleep
  ELSE NoSleep

sleep_between_retrievals(count) ==
  /\ last_sleep' = sleep_seconds(first_retrieval, count)
  /\ first_retrieval' = IF first_retrieval THEN FALSE ELSE first_retrieval
  /\ last_count' = count
  /\ sleep_calls' = sleep_calls + 1
  /\ UNCHANGED <<opt_wait, opt_waitretry>>

CallSleep ==
  /\ sleep_calls < MaxSleepCalls
  /\ \E count \in 1..MaxCount : sleep_between_retrievals(count)

(***************************************************************************)
(* get_contents: drain a connection into a file.                           *)
(***************************************************************************)

\* sizeof (c), the size of the static chunk buffer.
sizeof_c == 8192

MaxReads == 3   \* reads of the connection that may return data, per call

RestVals     == {0, 5}
ExpectedVals == {0, 5, sizeof_c, sizeof_c + 5, 2 * sizeof_c + 1}
BufferedVals == {0, 3, sizeof_c + 3}

\* What iread / ssl_iread may return for a request of amount bytes: an error
\* (ssl_iread's may be below -1), end of stream, or 1..amount bytes.
ReadResults(amount) == {-3, -1, 0, 1, amount}

\* rbuf_flush (rbuf, c, sizeof (c)): the number of buffered bytes handed over.
rbuf_flush(left, size) == MIN(size, left)

\* A bug: the known length is ignored when sizing the read.
amount_to_read_full(use_expected, expected, len) == sizeof_c

\* Lines 114-116.
amount_to_read(use_expected, expected, len) ==
  IF use_expected THEN MIN(expected - len, sizeof_c) ELSE sizeof_c

\* A bug: <= for <.
loop_condition_le(use_expected, len, expected) ==
  ~use_expected \/ len <= expected

\* Line 112.
loop_condition(use_expected, len, expected) ==
  ~use_expected \/ len < expected

\* A bug: a short fwrite while flushing RBUF goes unnoticed.
flush_write_failed_never(written, res) == FALSE

\* Line 95.
flush_write_failed(written, res) == written < res

\* Lines 142-143.
clamp_res(res) == IF res < -1 THEN -1 ELSE res

\* Lines 82-90: entry, up to the test of RBUF.  matches is
\* rbuf && RBUF_FD (rbuf) == fd; buffered is what RBUF holds.
get_contents_begin ==
  \E restval \in RestVals, expected \in ExpectedVals, use_expected \in BOOLEAN,
     verbose \in BOOLEAN, matches \in BOOLEAN, buffered \in BufferedVals :
    /\ gc_pc = "idle"
    /\ gc_restval' = restval
    /\ gc_expected' = expected
    /\ gc_use_expected' = use_expected
    /\ opt_verbose' = verbose
    /\ rbuf_left' = buffered
    /\ gc_res' = 0
    /\ gc_len' = restval
    /\ pg_created' = IF verbose THEN <<[restval |-> restval, expected |-> expected]>>
                     ELSE <<>>
    /\ gc_pc' = IF matches THEN "flush" ELSE "loop"
    /\ UNCHANGED <<gc_need_flush, fp_error, gc_ret, pg_total, pg_finished,
                   gc_reads, gc_written, write_failed, io_after_fail>>

\* Lines 93-101: one iteration of the loop flushing RBUF, rbuf_flush () != 0.
get_contents_flush_chunk ==
  /\ gc_pc = "flush"
  /\ rbuf_flush(rbuf_left, sizeof_c) # 0
  /\ LET res == rbuf_flush(rbuf_left, sizeof_c) IN
     \E written \in {0, res - 1, res} :
       /\ gc_res' = res
       /\ rbuf_left' = rbuf_left - res
       /\ io_after_fail' = (io_after_fail \/ write_failed)
       /\ fp_error' = (fp_error \/ written < res)
       /\ write_failed' = (write_failed \/ written < res)
       /\ IF flush_write_failed(written, res)
          THEN /\ gc_ret' = -2
               /\ gc_pc' = "returned"
               /\ UNCHANGED <<pg_total, gc_len, gc_need_flush, gc_written>>
          ELSE /\ pg_total' = IF opt_verbose THEN pg_total + res ELSE pg_total
               /\ gc_len' = gc_len + res
               /\ gc_need_flush' = TRUE
               /\ gc_written' = IF written < res THEN gc_written
                                ELSE gc_written + res
               /\ UNCHANGED <<gc_ret, gc_pc>>
  /\ UNCHANGED <<gc_restval, gc_expected, gc_use_expected, opt_verbose,
                 pg_created, pg_finished, gc_reads>>

\* Lines 93, 102-105: rbuf_flush () returns 0; fflush if anything was written.
get_contents_flush_end ==
  /\ gc_pc = "flush"
  /\ rbuf_flush(rbuf_left, sizeof_c) = 0
  /\ \E flushed \in BOOLEAN :
       /\ flushed \/ gc_need_flush
       /\ gc_res' = 0
       /\ io_after_fail' = (io_after_fail \/ write_failed)
       /\ fp_error' = (fp_error \/ ~flushed)
       /\ write_failed' = (write_failed \/ ~flushed)
       /\ IF fp_error'
          THEN gc_ret' = -2 /\ gc_pc' = "returned"
          ELSE gc_pc' = "loop" /\ UNCHANGED gc_ret
  /\ UNCHANGED <<gc_restval, gc_expected, gc_use_expected, opt_verbose, rbuf_left,
                 gc_len, gc_need_flush, pg_created, pg_total, pg_finished,
                 gc_reads, gc_written>>

\* Lines 142-146: the exit of the main loop.
get_contents_exit(res) ==
  /\ gc_res' = clamp_res(res)
  /\ pg_finished' = IF opt_verbose THEN pg_finished + 1 ELSE pg_finished
  /\ gc_ret' = clamp_res(res)
  /\ gc_pc' = "returned"

\* Lines 112-141: one iteration of the main loop: a read, and the write of
\* what was read.
get_contents_read ==
  /\ gc_pc = "loop"
  /\ loop_condition(gc_use_expected, gc_len, gc_expected)
  /\ LET amount == amount_to_read(gc_use_expected, gc_expected, gc_len) IN
     \E res \in ReadResults(amount), io \in {"ok", "fwrite", "fflush"} :
       /\ res > 0 => Len(gc_reads) < MaxReads
       /\ res <= 0 => io = "ok"
       /\ gc_reads' = Append(gc_reads, [len |-> gc_len, amount |-> amount,
                                        res |-> res])
       /\ io_after_fail' = (io_after_fail \/ write_failed)
       /\ IF res > 0
          THEN /\ fp_error' = (fp_error \/ io # "ok")
               /\ write_failed' = (write_failed \/ io # "ok")
               /\ IF fp_error'
                  THEN /\ gc_ret' = -2
                       /\ gc_pc' = "returned"
                       /\ gc_res' = res
                       /\ UNCHANGED <<pg_total, gc_len, gc_written, pg_finished>>
                  ELSE /\ pg_total' = IF opt_verbose THEN pg_total + res
                                      ELSE pg_total
                       /\ gc_len' = gc_len + res
                       /\ gc_written' = gc_written + res
                       /\ gc_res' = res
                       /\ UNCHANGED <<gc_ret, gc_pc, pg_finished>>
          ELSE /\ get_contents_exit(res)
               /\ UNCHANGED <<fp_error, write_failed, pg_total, gc_len,
                              gc_written>>
  /\ UNCHANGED <<gc_restval, gc_expected, gc_use_expected, opt_verbose, rbuf_left,
                 gc_need_flush, pg_created>>

\* Lines 112, 142-146: the loop condition is false.
get_contents_done ==
  /\ gc_pc = "loop"
  /\ ~loop_condition(gc_use_expected, gc_len, gc_expected)
  /\ get_contents_exit(gc_res)
  /\ UNCHANGED <<gc_restval, gc_expected, gc_use_expected, opt_verbose, rbuf_left,
                 gc_len, gc_need_flush, fp_error, pg_created, pg_total, gc_reads,
                 gc_written, write_failed, io_after_fail>>

(***************************************************************************)
(* retrieve_url: dispatch by scheme and proxy, follow the redirections.    *)
(***************************************************************************)

MaxCalls == 2   \* calls of retrieve_url per run

NULL == "NULL"

\* The URL texts given to retrieve_url, and the Location values the HTTP loop
\* may report: absolute, relative ("b") or malformed.
OrigUrls  == {"http://h/a", "HTTP://H/a", "http://h/b", "ftp://h/c", "http//bad"}
Locations == {"http://h/a", "HTTP://H/a", "http://h/b", "ftp://h/c", "b",
              "http://h:x/"}
Proxies   == {NULL, "http://proxy/", "ftp://proxy/", "proxy//bad"}
Schemes   == {"SCHEME_HTTP", "SCHEME_FTP"}

\* url_parse (url.c): the canonical form (struct url's url member) of a URL
\* text, NULL if the text does not parse.
url_parse(text) ==
  CASE text \in {"http://h/a", "HTTP://H/a"} -> "http://h/a"
    [] text \in {"http://h/b", "HTTP://H/b"} -> "http://h/b"
    [] text = "ftp://h/c" -> "ftp://h/c"
    [] text = "ftp://h/b" -> "ftp://h/b"
    [] text = "http://proxy/" -> "http://proxy/"
    [] text = "ftp://proxy/" -> "ftp://proxy/"
    [] OTHER -> NULL

\* u->scheme of a parsed URL.
url_scheme(u) ==
  IF u \in {"ftp://h/c", "ftp://h/b", "ftp://proxy/"} THEN "SCHEME_FTP"
  ELSE "SCHEME_HTTP"

\* uri_merge (url.c): LOCATION resolved against BASE when it is relative.
uri_merge(base, location) ==
  IF location # "b" THEN location
  ELSE CASE base \in {"http://h/a", "http://h/b"} -> "http://h/" \o location
         [] base = "HTTP://H/a" -> "HTTP://H/" \o location
         [] OTHER -> "ftp://h/" \o location

\* getproxy (scheme).
getproxy(scheme) == proxy_env[scheme]

\* A bug: the hosts exempted by opt.no_proxy are proxied too.
USE_PROXY_P_noexempt(u) ==
  opt_use_proxy /\ getproxy(url_scheme(u)) # NULL

\* Lines 187-189.
USE_PROXY_P(u) ==
  opt_use_proxy /\ getproxy(url_scheme(u)) # NULL /\ no_proxy_ok

\* struct hash_table *redirections: NULL, or the set of the strings added.
NullTable == [table |-> FALSE, keys |-> {}]
make_string_hash_table == [table |-> TRUE, keys |-> {}]
string_set_add(ht, key) == [ht EXCEPT !.keys = @ \cup {key}]
string_set_contains(ht, key) == key \in ht.keys

\* The name of the local file a protocol loop produces for URL u.
LocalFile(u) == "file of " \o u

Flags == {"RETROKF", "TEXTHTML"}

\* What http_loop may hand back: a redirection with its Location, or a final
\* status with or without a local file.
HttpOutcomes(u) ==
  [result : {"NEWLOCATION"}, mynewloc : Locations,
   local_file : {NULL, LocalFile(u)}, dt : {{}}]
  \cup
  [result : {"RETROK", "WRONGCODE", "CONREFUSED"}, mynewloc : {NULL},
   local_file : {NULL, LocalFile(u)}, dt : SUBSET Flags]

\* What ftp_loop may hand back: it reports no location and no local file.
FtpOutcomes(u) ==
  [result : {"RETROK", "CONREFUSED"}, mynewloc : {NULL}, local_file : {NULL},
   dt : SUBSET Flags]

\* A return statement of retrieve_url ahead of line 404: the function returns
\* status from the place named exit.
retrieve_url_abort(status, exit) ==
  /\ ru_result' = status
  /\ ru_exit' = exit
  /\ ru_pc' = "returned"

\* Lines 198-228: entry and the parse of ORIGURL.
retrieve_url_begin ==
  /\ ru_pc = "idle"
  /\ ru_ncalls < MaxCalls
  /\ \E origurl \in OrigUrls :
       /\ ru_url' = origurl
       /\ ru_u' = url_parse(origurl)
       /\ IF url_parse(origurl) = NULL
          THEN retrieve_url_abort("URLERROR", "line 224")
          ELSE /\ ru_pc' = "redirected"
               /\ ru_exit' = "none"
               /\ ru_result' = "NOCONERROR"
  /\ ru_newloc' = NULL
  /\ ru_file' = NULL
  /\ redirections' = NullTable
  /\ ru_mynewloc' = NULL
  /\ ru_local_file' = NULL
  /\ ru_dt' = {}
  /\ ru_loops' = <<>>
  /\ ru_registered' = <<>>
  /\ ru_count0' = global_download_count
  /\ ru_ncalls' = ru_ncalls + 1
  /\ UNCHANGED <<global_download_count, opt_recursive, opt_use_proxy, proxy_env,
                 no_proxy_ok>>

\* The protocol loop returned out for the current URL; loop, proxy_url and
\* recursive are what it was invoked with.
loop_returns(loop, proxy_url, recursive, out) ==
  /\ ru_loops' = Append(ru_loops, [loop |-> loop, text |-> ru_url, url |-> ru_u,
                                   proxy |-> proxy_url, recursive |-> recursive,
                                   result |-> out.result,
                                   mynewloc |-> out.mynewloc])
  /\ ru_result' = out.result
  /\ ru_mynewloc' = out.mynewloc
  /\ ru_local_file' = out.local_file
  /\ ru_dt' = out.dt
  /\ ru_pc' = "looped"
  /\ UNCHANGED ru_exit

\* A bug: opt.recursive is left on inside a chain of redirections.
ftp_recursive_keep(oldrec, ht) == oldrec

\* Lines 290-292: the value of opt.recursive during ftp_loop.
ftp_recursive(oldrec, ht) == IF ht.table THEN FALSE ELSE oldrec

\* Line 294: opt.recursive after ftp_loop, which ran with it set to during.
recursive_after_ftp(oldrec, during) == oldrec

\* Lines 230-308: the label redirected, the proxy and the protocol loop.
retrieve_url_dispatch ==
  /\ ru_pc = "redirected"
  /\ LET use_proxy == USE_PROXY_P(ru_u)
         proxy     == getproxy(url_scheme(ru_u))
         proxy_url == url_parse(proxy)
     IN  IF use_proxy
         THEN IF proxy = NULL
              THEN /\ retrieve_url_abort("PROXERR", "line 250")
                   /\ UNCHANGED <<ru_mynewloc, ru_local_file, ru_dt, ru_loops,
                                  opt_recursive>>
              ELSE IF proxy_url = NULL
              THEN /\ retrieve_url_abort("PROXERR", "line 262")
                   /\ UNCHANGED <<ru_mynewloc, ru_local_file, ru_dt, ru_loops,
                                  opt_recursive>>
              ELSE IF url_scheme(proxy_url) # "SCHEME_HTTP"
              THEN /\ retrieve_url_abort("PROXERR", "line 271")
                   /\ UNCHANGED <<ru_mynewloc, ru_local_file, ru_dt, ru_loops,
                                  opt_recursive>>
              ELSE /\ \E out \in HttpOutcomes(ru_u) :
                        loop_returns("http_loop", proxy_url, opt_recursive, out)
                   /\ UNCHANGED opt_recursive
         ELSE IF url_scheme(ru_u) = "SCHEME_HTTP"
         THEN /\ \E out \in HttpOutcomes(ru_u) :
                   loop_returns("http_loop", NULL, opt_recursive, out)
              /\ UNCHANGED opt_recursive
         ELSE LET oldrec == opt_recursive
                  during == ftp_recursive(oldrec, redirections)
              IN  /\ \E out \in FtpOutcomes(ru_u) :
                       loop_returns("ftp_loop", NULL, during, out)
                  /\ opt_recursive' = recursive_after_ftp(oldrec, during)
  /\ UNCHANGED <<ru_url, ru_u, redirections, ru_file, ru_newloc,
                 global_download_count, opt_use_proxy, proxy_env,
                 no_proxy_ok, ru_registered, ru_count0, ru_ncalls>>

\* A bug: the URL being left is not put in the set when the set is made.
seen_after_first_redirect_empty(ht, current) ==
  IF ~ht.table THEN make_string_hash_table ELSE ht

\* Lines 349-355: the set of redirections, made on the first redirection with
\* the current URL in it.
seen_after_first_redirect(ht, current) ==
  IF ~ht.table THEN string_set_add(make_string_hash_table, current) ELSE ht

\* A bug: a target already in the set is followed all the same.
cycle_detected_never(seen, target) == FALSE

\* Line 359.
cycle_detected(seen, target) == string_set_contains(seen, target)

\* A bug: the URL about to be followed is not put in the set.
seen_after_following_skip(ht, target) == ht

\* Line 371: the URL about to be followed is put in the set.
seen_after_following(ht, target) == string_set_add(ht, target)

\* Lines 309-378: the loop reported a new location.
retrieve_url_redirect ==
  /\ ru_pc = "looped"
  /\ ru_result = "NEWLOCATION"
  /\ LET construced_newloc == uri_merge(ru_url, ru_mynewloc)
         newloc_struct == url_parse(construced_newloc)
         seen == seen_after_first_redirect(redirections, ru_u)
     IN  IF newloc_struct = NULL
         THEN /\ retrieve_url_abort(ru_result, "line 340")
              /\ ru_mynewloc' = construced_newloc
              /\ UNCHANGED <<ru_url, ru_u, redirections>>
         ELSE IF cycle_detected(seen, newloc_struct)
         THEN /\ retrieve_url_abort("WRONGCODE", "line 369")
              /\ ru_mynewloc' = newloc_struct
              /\ redirections' = seen
              /\ UNCHANGED <<ru_url, ru_u>>
         ELSE /\ redirections' = seen_after_following(seen, newloc_struct)
              /\ ru_mynewloc' = newloc_struct
              /\ ru_url' = newloc_struct
              /\ ru_u' = newloc_struct
              /\ ru_pc' = "redirected"
              /\ UNCHANGED <<ru_result, ru_exit>>
  /\ UNCHANGED <<ru_local_file, ru_dt, ru_file, ru_newloc, global_download_count,
                 opt_recursive, opt_use_proxy, proxy_env, no_proxy_ok, ru_loops,
                 ru_registered, ru_count0, ru_ncalls>>

\* A bug: a file is registered whether or not RETROKF is set.
registrations_nocheck(url, local_file, dt) ==
  IF local_file # NULL
  THEN <<[reg |-> "register_download", url |-> url, file |-> local_file]>>
       \o (IF "TEXTHTML" \in dt
           THEN <<[reg |-> "register_html", url |-> url, file |-> local_file]>>
           ELSE <<>>)
  ELSE <<>>

\* Lines 380-388: the registrations of a retrieved file.
registrations(url, local_file, dt) ==
  IF local_file # NULL /\ "RETROKF" \in dt
  THEN <<[reg |-> "register_download", url |-> url, file |-> local_file]>>
       \o (IF "TEXTHTML" \in dt
           THEN <<[reg |-> "register_html", url |-> url, file |-> local_file]>>
           ELSE <<>>)
  ELSE <<>>

\* Lines 380-402: the loop reported anything but a new location.
retrieve_url_finish ==
  /\ ru_pc = "looped"
  /\ ru_result # "NEWLOCATION"
  /\ ru_registered' = ru_registered \o registrations(ru_url, ru_local_file, ru_dt)
  /\ ru_file' = ru_local_file
  /\ ru_newloc' = ru_url
  /\ ru_pc' = "count"
  /\ UNCHANGED <<ru_url, ru_u, redirections, ru_result, ru_mynewloc,
                 ru_local_file, ru_dt, global_download_count, opt_recursive,
                 opt_use_proxy, proxy_env, no_proxy_ok, ru_exit, ru_loops,
                 ru_count0, ru_ncalls>>

\* A bug: the count is left alone.
count_download_skip(n) == n

\* Line 404.
count_download(n) == n + 1

\* Lines 404-406: count the download and return result.
retrieve_url_count ==
  /\ ru_pc = "count"
  /\ global_download_count' = count_download(global_download_count)
  /\ ru_exit' = "line 406"
  /\ ru_pc' = "returned"
  /\ UNCHANGED <<ru_url, ru_u, redirections, ru_result, ru_mynewloc,
                 ru_local_file, ru_dt, ru_file, ru_newloc, opt_recursive,
                 opt_use_proxy, proxy_env, no_proxy_ok, ru_loops, ru_registered,
                 ru_count0, ru_ncalls>>

\* The caller has the status and is ready for another call.
retrieve_url_returned ==
  /\ ru_pc = "returned"
  /\ ru_pc' = "idle"
  /\ UNCHANGED <<ru_url, ru_u, redirections, ru_result, ru_mynewloc,
                 ru_local_file, ru_dt, ru_file, ru_newloc, global_download_count,
                 opt_recursive, opt_use_proxy, proxy_env, no_proxy_ok, ru_exit,
                 ru_loops, ru_registered, ru_count0, ru_ncalls>>

(***************************************************************************)
(* retrieve_from_file: retrieve the URLs of a list, one after the other.   *)
(***************************************************************************)

\* The amounts a protocol loop, or a recursive retrieval, may add to
\* opt.downloaded through downloaded_increase.
LoopBytes == {0, 2, MaxCounter}

\* The quotas tried.
Quotas == {0, 1, 3}

\* What recursive_retrieve may return.
RecursiveStatuses == {"RETROK", "QUOTEXC", "CONREFUSED"}

\* The downloads of a protocol loop or of recursive_retrieve are counted.
loop_downloads ==
  \E by_how_much \in LoopBytes :
    /\ downloaded_increase(by_how_much)
    /\ true_sum' = IF opt_downloaded_overflow THEN true_sum
                   ELSE true_sum + by_how_much
    /\ acct_op' = "increase"
    /\ UNCHANGED <<opt_quota, exceeds_ret>>

\* Lines 420-425: the list is read and the loop is set up.
retrieve_from_file_begin ==
  /\ rf_pc = "idle"
  /\ rf_calls = <<>>
  /\ \E n \in 0..MaxCalls :
       /\ rf_n' = n
       /\ rf_left' = n
  /\ rf_status' = "RETROK"
  /\ rf_count' = 0
  /\ rf_pc' = "test"
  /\ UNCHANGED <<opt_delete_after, rf_calls, rf_items>>

\* Lines 425, 455-457: cur_url is NULL, the list is done.
retrieve_from_file_done ==
  /\ rf_pc = "test"
  /\ rf_left = 0
  /\ rf_pc' = "returned"
  /\ UNCHANGED <<rf_status, rf_count, rf_n, rf_left, opt_delete_after, rf_calls,
                 rf_items>>

\* A bug: the quota is not looked at.
quota_stop_never(exceeds) == FALSE

\* Line 430.
quota_stop(exceeds) == exceeds # 0

\* A bug: the URL at which the quota stops the loop is counted.
count_after_break_counted(count) == count + 1

\* Lines 425, 433: break leaves the loop without its step ++*count.
count_after_break(count) == count

\* Line 425: the step ++*count, at the end of an iteration.
count_after_item(count) == count + 1

\* The quota is exceeded: opt.downloaded is known and above a quota that is set.
OverQuota ==
  opt_quota # 0 /\ ~opt_downloaded_overflow /\ opt_downloaded > opt_quota

\* Lines 425-434, 455-457: the quota is exceeded at the top of an iteration.
retrieve_from_file_quota ==
  /\ rf_pc = "test"
  /\ rf_left > 0
  /\ CallExceedsQuota
  /\ quota_stop(exceeds_ret')
  /\ rf_status' = "QUOTEXC"
  /\ rf_count' = count_after_break(rf_count)
  /\ rf_pc' = "returned"
  /\ UNCHANGED <<rf_n, rf_left, opt_delete_after, rf_calls, rf_items>>

\* Lines 425-435: the quota is not exceeded, retrieve_url is called.
retrieve_from_file_call ==
  /\ rf_pc = "test"
  /\ rf_left > 0
  /\ CallExceedsQuota
  /\ ~quota_stop(exceeds_ret')
  /\ retrieve_url_begin
  /\ rf_calls' = Append(rf_calls, OverQuota)
  /\ rf_pc' = "retrieving"
  /\ UNCHANGED <<rf_status, rf_count, rf_n, rf_left, opt_delete_after, rf_items>>

\* Lines 435-438: status is assigned the status of the item.
status_after_item(status, item) == item

\* Lines 435-452, 425: retrieve_url has returned; the recursive retrieval,
\* the removal of the file, and the step of the loop.
retrieve_from_file_item ==
  /\ rf_pc = "retrieving"
  /\ retrieve_url_returned
  /\ \E rstatus \in RecursiveStatuses, exists \in BOOLEAN :
       LET recurse == opt_recursive /\ ru_result = "RETROK" /\ "TEXTHTML" \in ru_dt
           item    == IF recurse THEN rstatus ELSE ru_result
           deleted == ru_file # NULL /\ opt_delete_after /\ exists
       IN  /\ ~recurse => rstatus = "RETROK"
           /\ (ru_file = NULL \/ ~opt_delete_after) => exists
           /\ IF recurse THEN loop_downloads ELSE UNCHANGED acctVars
           /\ rf_status' = status_after_item(rf_status, item)
           /\ rf_items' = Append(rf_items, [status |-> item, recursed |-> recurse,
                                            deleted |-> deleted])
  /\ rf_count' = count_after_item(rf_count)
  /\ rf_left' = rf_left - 1
  /\ rf_pc' = "test"
  /\ UNCHANGED <<rf_n, opt_delete_after, rf_calls>>

(***************************************************************************)
(* Specifications.                                                         *)
(***************************************************************************)

NextAcct ==
  \/ CallIncrease /\ UNCHANGED <<sleepVars, drainVars, retrVars, batchVars>>
  \/ CallExceedsQuota /\ UNCHANGED <<sleepVars, drainVars, retrVars, batchVars>>

\* The start of a run, with any quota configured.
InitAcct ==
  /\ opt_downloaded = 0
  /\ opt_downloaded_overflow = FALSE
  /\ opt_quota \in 0..MaxCounter
  /\ exceeds_ret = NoRet
  /\ acct_op = "none"
  /\ true_sum = 0
  /\ first_retrieval = TRUE
  /\ opt_wait = 0
  /\ opt_waitretry = 0
  /\ last_sleep = NoSleep
  /\ last_count = 0
  /\ sleep_calls = 0
  /\ gc_pc = "idle"
  /\ gc_restval = 0
  /\ gc_expected = 0
  /\ gc_use_expected = FALSE
  /\ opt_verbose = FALSE
  /\ rbuf_left = 0
  /\ gc_len = 0
  /\ gc_res = 0
  /\ gc_need_flush = FALSE
  /\ fp_error = FALSE
  /\ gc_ret = 0
  /\ pg_created = <<>>
  /\ pg_total = 0
  /\ pg_finished = 0
  /\ gc_reads = <<>>
  /\ gc_written = 0
  /\ write_failed = FALSE
  /\ io_after_fail = FALSE
  /\ ru_pc = "idle"
  /\ ru_url = NULL
  /\ ru_u = NULL
  /\ redirections = NullTable
  /\ ru_result = "NOCONERROR"
  /\ ru_mynewloc = NULL
  /\ ru_local_file = NULL
  /\ ru_dt = {}
  /\ ru_file = NULL
  /\ ru_newloc = NULL
  /\ global_download_count = 0
  /\ opt_recursive = FALSE
  /\ opt_use_proxy = FALSE
  /\ proxy_env = [s \in Schemes |-> NULL]
  /\ no_proxy_ok = TRUE
  /\ ru_exit = "none"
  /\ ru_loops = <<>>
  /\ ru_registered = <<>>
  /\ ru_count0 = 0
  /\ ru_ncalls = 0
  /\ rf_pc = "idle"
  /\ rf_status = "RETROK"
  /\ rf_count = 0
  /\ rf_n = 0
  /\ rf_left = 0
  /\ opt_delete_after = FALSE
  /\ rf_calls = <<>>
  /\ rf_items = <<>>

SpecAcct == InitAcct /\ [][NextAcct]_vars

NextSleep ==
  \/ CallSleep /\ UNCHANGED <<acctVars, drainVars, retrVars, batchVars>>

\* The start of a run, with any opt.wait and opt.waitretry.
InitSleep ==
  /\ opt_downloaded = 0
  /\ opt_downloaded_overflow = FALSE
  /\ opt_quota = 0
  /\ exceeds_ret = NoRet
  /\ acct_op = "none"
  /\ true_sum = 0
  /\ first_retrieval = TRUE
  /\ opt_wait \in 0..MaxWait
  /\ opt_waitretry \in 0..MaxWait
  /\ last_sleep = NoSleep
  /\ last_count = 0
  /\ sleep_calls = 0
  /\ gc_pc = "idle"
  /\ gc_restval = 0
  /\ gc_expected = 0
  /\ gc_use_expected = FALSE
  /\ opt_verbose = FALSE
  /\ rbuf_left = 0
  /\ gc_len = 0
  /\ gc_res = 0
  /\ gc_need_flush = FALSE
  /\ fp_error = FALSE
  /\ gc_ret = 0
  /\ pg_created = <<>>
  /\ pg_total = 0
  /\ pg_finished = 0
  /\ gc_reads = <<>>
  /\ gc_written = 0
  /\ write_failed = FALSE
  /\ io_after_fail = FALSE
  /\ ru_pc = "idle"
  /\ ru_url = NULL
  /\ ru_u = NULL
  /\ redirections = NullTable
  /\ ru_result = "NOCONERROR"
  /\ ru_mynewloc = NULL
  /\ ru_local_file = NULL
  /\ ru_dt = {}
  /\ ru_file = NULL
  /\ ru_newloc = NULL
  /\ global_download_count = 0
  /\ opt_recursive = FALSE
  /\ opt_use_proxy = FALSE
  /\ proxy_env = [s \in Schemes |-> NULL]
  /\ no_proxy_ok = TRUE
  /\ ru_exit = "none"
  /\ ru_loops = <<>>
  /\ ru_registered = <<>>
  /\ ru_count0 = 0
  /\ ru_ncalls = 0
  /\ rf_pc = "idle"
  /\ rf_status = "RETROK"
  /\ rf_count = 0
  /\ rf_n = 0
  /\ rf_left = 0
  /\ opt_delete_after = FALSE
  /\ rf_calls = <<>>
  /\ rf_items = <<>>

SpecSleep == InitSleep /\ [][NextSleep]_vars

NextDrain ==
  \/ get_contents_begin /\ UNCHANGED <<acctVars, sleepVars, retrVars, batchVars>>
  \/ get_contents_flush_chunk /\ UNCHANGED <<acctVars, sleepVars, retrVars, batchVars>>
  \/ get_contents_flush_end /\ UNCHANGED <<acctVars, sleepVars, retrVars, batchVars>>
  \/ get_contents_read /\ UNCHANGED <<acctVars, sleepVars, retrVars, batchVars>>
  \/ get_contents_done /\ UNCHANGED <<acctVars, sleepVars, retrVars, batchVars>>

\* The start of a run, before a call of get_contents.
InitDrain ==
  /\ opt_downloaded = 0
  /\ opt_downloaded_overflow = FALSE
  /\ opt_quota = 0
  /\ exceeds_ret = NoRet
  /\ acct_op = "none"
  /\ true_sum = 0
  /\ first_retrieval = TRUE
  /\ opt_wait = 0
  /\ opt_waitretry = 0
  /\ last_sleep = NoSleep
  /\ last_count = 0
  /\ sleep_calls = 0
  /\ gc_pc = "idle"
  /\ gc_restval = 0
  /\ gc_expected = 0
  /\ gc_use_expected = FALSE
  /\ opt_verbose = FALSE
  /\ rbuf_left = 0
  /\ gc_len = 0
  /\ gc_res = 0
  /\ gc_need_flush = FALSE
  /\ fp_error = FALSE
  /\ gc_ret = 0
  /\ pg_created = <<>>
  /\ pg_total = 0
  /\ pg_finished = 0
  /\ gc_reads = <<>>
  /\ gc_written = 0
  /\ write_failed = FALSE
  /\ io_after_fail = FALSE
  /\ ru_pc = "idle"
  /\ ru_url = NULL
  /\ ru_u = NULL
  /\ redirections = NullTable
  /\ ru_result = "NOCONERROR"
  /\ ru_mynewloc = NULL
  /\ ru_local_file = NULL
  /\ ru_dt = {}
  /\ ru_file = NULL
  /\ ru_newloc = NULL
  /\ global_download_count = 0
  /\ opt_recursive = FALSE
  /\ opt_use_proxy = FALSE
  /\ proxy_env = [s \in Schemes |-> NULL]
  /\ no_proxy_ok = TRUE
  /\ ru_exit = "none"
  /\ ru_loops = <<>>
  /\ ru_registered = <<>>
  /\ ru_count0 = 0
  /\ ru_ncalls = 0
  /\ rf_pc = "idle"
  /\ rf_status = "RETROK"
  /\ rf_count = 0
  /\ rf_n = 0
  /\ rf_left = 0
  /\ opt_delete_after = FALSE
  /\ rf_calls = <<>>
  /\ rf_items = <<>>

SpecDrain == InitDrain /\ [][NextDrain]_vars

NextRetr ==
  \/ retrieve_url_begin /\ UNCHANGED <<acctVars, sleepVars, drainVars, batchVars>>
  \/ retrieve_url_dispatch /\ UNCHANGED <<acctVars, sleepVars, drainVars, batchVars>>
  \/ retrieve_url_redirect /\ UNCHANGED <<acctVars, sleepVars, drainVars, batchVars>>
  \/ retrieve_url_finish /\ UNCHANGED <<acctVars, sleepVars, drainVars, batchVars>>
  \/ retrieve_url_count /\ UNCHANGED <<acctVars, sleepVars, drainVars, batchVars>>
  \/ retrieve_url_returned /\ UNCHANGED <<acctVars, sleepVars, drainVars, batchVars>>

\* The start of a run, with any proxy configuration and any opt.recursive.
InitRetr ==
  /\ opt_downloaded = 0
  /\ opt_downloaded_overflow = FALSE
  /\ opt_quota = 0
  /\ exceeds_ret = NoRet
  /\ acct_op = "none"
  /\ true_sum = 0
  /\ first_retrieval = TRUE
  /\ opt_wait = 0
  /\ opt_waitretry = 0
  /\ last_sleep = NoSleep
  /\ last_count = 0
  /\ sleep_calls = 0
  /\ gc_pc = "idle"
  /\ gc_restval = 0
  /\ gc_expected = 0
  /\ gc_use_expected = FALSE
  /\ opt_verbose = FALSE
  /\ rbuf_left = 0
  /\ gc_len = 0
  /\ gc_res = 0
  /\ gc_need_flush = FALSE
  /\ fp_error = FALSE
  /\ gc_ret = 0
  /\ pg_created = <<>>
  /\ pg_total = 0
  /\ pg_finished = 0
  /\ gc_reads = <<>>
  /\ gc_written = 0
  /\ write_failed = FALSE
  /\ io_after_fail = FALSE
  /\ ru_pc = "idle"
  /\ ru_url = NULL
  /\ ru_u = NULL
  /\ redirections = NullTable
  /\ ru_result = "NOCONERROR"
  /\ ru_mynewloc = NULL
  /\ ru_local_file = NULL
  /\ ru_dt = {}
  /\ ru_file = NULL
  /\ ru_newloc = NULL
  /\ global_download_count = 0
  /\ opt_recursive \in BOOLEAN
  /\ opt_use_proxy \in BOOLEAN
  /\ proxy_env \in [Schemes -> Proxies]
  /\ no_proxy_ok \in BOOLEAN
  /\ ru_exit = "none"
  /\ ru_loops = <<>>
  /\ ru_registered = <<>>
  /\ ru_count0 = 0
  /\ ru_ncalls = 0
  /\ rf_pc = "idle"
  /\ rf_status = "RETROK"
  /\ rf_count = 0
  /\ rf_n = 0
  /\ rf_left = 0
  /\ opt_delete_after = FALSE
  /\ rf_calls = <<>>
  /\ rf_items = <<>>

SpecRetr == InitRetr /\ [][NextRetr]_vars

\* One call of retrieve_from_file; the protocol loops of its retrieve_url
\* calls download.
NextBatch ==
  \/ retrieve_from_file_begin
       /\ UNCHANGED <<acctVars, sleepVars, drainVars, retrVars>>
  \/ retrieve_from_file_done
       /\ UNCHANGED <<acctVars, sleepVars, drainVars, retrVars>>
  \/ retrieve_from_file_quota /\ UNCHANGED <<sleepVars, drainVars, retrVars>>
  \/ retrieve_from_file_call /\ UNCHANGED <<sleepVars, drainVars>>
  \/ retrieve_url_dispatch /\ loop_downloads
       /\ UNCHANGED <<sleepVars, drainVars, batchVars>>
  \/ retrieve_url_redirect /\ UNCHANGED <<acctVars, sleepVars, drainVars, batchVars>>
  \/ retrieve_url_finish /\ UNCHANGED <<acctVars, sleepVars, drainVars, batchVars>>
  \/ retrieve_url_count /\ UNCHANGED <<acctVars, sleepVars, drainVars, batchVars>>
  \/ retrieve_from_file_item /\ UNCHANGED <<sleepVars, drainVars>>

\* The start of a run without proxy, with any quota, opt.recursive and
\* opt.delete_after.
InitBatch ==
  /\ opt_downloaded = 0
  /\ opt_downloaded_overflow = FALSE
  /\ opt_quota \in Quotas
  /\ exceeds_ret = NoRet
  /\ acct_op = "none"
  /\ true_sum = 0
  /\ first_retrieval = TRUE
  /\ opt_wait = 0
  /\ opt_waitretry = 0
  /\ last_sleep = NoSleep
  /\ last_count = 0
  /\ sleep_calls = 0
  /\ gc_pc = "idle"
  /\ gc_restval = 0
  /\ gc_expected = 0
  /\ gc_use_expected = FALSE
  /\ opt_verbose = FALSE
  /\ rbuf_left = 0
  /\ gc_len = 0
  /\ gc_res = 0
  /\ gc_need_flush = FALSE
  /\ fp_error = FALSE
  /\ gc_ret = 0
  /\ pg_created = <<>>
  /\ pg_total = 0
  /\ pg_finished = 0
  /\ gc_reads = <<>>
  /\ gc_written = 0
  /\ write_failed = FALSE
  /\ io_after_fail = FALSE
  /\ ru_pc = "idle"
  /\ ru_url = NULL
  /\ ru_u = NULL
  /\ redirections = NullTable
  /\ ru_result = "NOCONERROR"
  /\ ru_mynewloc = NULL
  /\ ru_local_file = NULL
  /\ ru_dt = {}
  /\ ru_file = NULL
  /\ ru_newloc = NULL
  /\ global_download_count = 0
  /\ opt_recursive \in BOOLEAN
  /\ opt_use_proxy = FALSE
  /\ proxy_env = [s \in Schemes |-> NULL]
  /\ no_proxy_ok = TRUE
  /\ ru_exit = "none"
  /\ ru_loops = <<>>
  /\ ru_registered = <<>>
  /\ ru_count0 = 0
  /\ ru_ncalls = 0
  /\ rf_pc = "idle"
  /\ rf_status = "RETROK"
  /\ rf_count = 0
  /\ rf_n = 0
  /\ rf_left = 0
  /\ opt_delete_after \in BOOLEAN
  /\ rf_calls = <<>>
  /\ rf_items = <<>>

SpecBatch == InitBatch /\ [][NextBatch]_vars

\* One call of retrieve_url, from any configuration.
NextRetrCall ==
  \/ ru_ncalls = 0 /\ retrieve_url_begin
       /\ UNCHANGED <<acctVars, sleepVars, drainVars, batchVars>>
  \/ retrieve_url_dispatch /\ UNCHANGED <<acctVars, sleepVars, drainVars, batchVars>>
  \/ retrieve_url_redirect /\ UNCHANGED <<acctVars, sleepVars, drainVars, batchVars>>
  \/ retrieve_url_finish /\ UNCHANGED <<acctVars, sleepVars, drainVars, batchVars>>
  \/ retrieve_url_count /\ UNCHANGED <<acctVars, sleepVars, drainVars, batchVars>>
  \/ retrieve_url_returned /\ UNCHANGED <<acctVars, sleepVars, drainVars, batchVars>>

\* The call runs on to its return: the code is sequential and the protocol
\* loops return.
SpecRetrFair == InitRetr /\ [][NextRetrCall]_vars /\ WF_vars(NextRetrCall)

(***************************************************************************)
(* Properties.                                                             *)
(***************************************************************************)

\* The canonical URL that the redirection reported by the i-th protocol loop
\* of the current call leads to, NULL if it does not parse.
Target(i) == url_parse(uri_merge(ru_loops[i].text, ru_loops[i].mynewloc))

\* The canonical URLs handed to the first i protocol loops of the call.
Dispatched(i) == {ru_loops[j].url : j \in 1..i}

\* C1 as stated: whichever way retrieve_url returns, global_download_count is
\* one more than it was at the call.
C1_CountedOnEveryReturn ==
  ru_pc = "returned" => global_download_count = ru_count0 + 1

\* When retrieve_url has returned: the count is one more than at the call if
\* the return is the one of line 406, and what it was at the call otherwise;
\* and line 406 is where it returns exactly when the last protocol loop
\* reported something other than a new location.
C1_CountAtReturn ==
  ru_pc = "returned" =>
    /\ global_download_count =
         ru_count0 + (IF ru_exit = "line 406" THEN 1 ELSE 0)
    /\ ru_exit = "line 406" <=>
         /\ ru_loops # <<>>
         /\ ru_loops[Len(ru_loops)].result # "NEWLOCATION"
    /\ ru_exit # "line 406" =>
         ru_exit \in {"line 224", "line 250", "line 262", "line 271",
                      "line 340", "line 369"}

\* C1 (amended): global_download_count is incremented by exactly one by a call
\* of retrieve_url that returns after a protocol loop reported a final
\* (non-redirect) status, the increment being the last change before the
\* return; a call that returns on a URL parse error, a proxy error, a
\* redirection cycle or an unparsable redirect target leaves it unchanged.
C1_CountedOnTerminalReturn ==
  [][ /\ C1_CountAtReturn'
      /\ global_download_count' # global_download_count =>
           /\ global_download_count' = global_download_count + 1
           /\ ru_pc = "count" /\ ru_pc' = "returned"
           /\ UNCHANGED <<ru_url, ru_u, redirections, ru_result, ru_file,
                          ru_newloc, ru_registered, ru_loops, opt_recursive>> ]_vars

C1_Witness ==
  /\ ru_pc = "returned"
  /\ ru_exit = "line 406"
  /\ Len(ru_loops) = 2
  /\ ru_result = "CONREFUSED"
  /\ global_download_count = ru_count0 + 1
  /\ ru_count0 = 1

\* C2: a protocol loop that reports a redirection to a URL already handed to a
\* protocol loop by this call (its own URL included) is the last one the call
\* invokes, and the call returns WRONGCODE from the cycle check; so A -> B -> A
\* ends after the two loops for A and B.
C2_CycleStopsRetrieval ==
  \A i \in 1..Len(ru_loops) :
    ( /\ ru_loops[i].result = "NEWLOCATION"
      /\ Target(i) # NULL
      /\ Target(i) \in Dispatched(i) )
    => /\ i = Len(ru_loops)
       /\ redirections.table => Dispatched(i) \subseteq redirections.keys
       /\ ru_pc \in {"returned", "idle"} =>
            ru_result = "WRONGCODE" /\ ru_exit = "line 369"

C2_Witness ==
  /\ ru_pc = "returned"
  /\ Len(ru_loops) = 2
  /\ ru_loops[1].url = "http://h/a" /\ Target(1) = "http://h/b"
  /\ ru_loops[2].url = "http://h/b" /\ ru_loops[2].result = "NEWLOCATION"
  /\ Target(2) = "http://h/a"
  /\ ru_result = "WRONGCODE"
  /\ ru_exit = "line 369"

\* C3 as stated: every value returned by get_contents is 0, -1 or -2.
C3_ReturnCodes ==
  gc_pc = "returned" => gc_ret \in {0, -1, -2}

\* C4 as stated: with opt.verbose set, the progress is created once and, when
\* get_contents has returned, finished exactly once.
C4_ProgressFinishedOnce ==
  opt_verbose =>
    /\ gc_pc # "idle" => Len(pg_created) = 1
    /\ gc_pc = "returned" => pg_finished = 1

\* C5: after a write to the output file has failed, get_contents makes no read
\* and no rbuf_flush: it has returned, and the value is -2.
C5_WriteErrorEndsTransfer ==
  /\ ~io_after_fail
  /\ write_failed => gc_pc = "returned" /\ gc_ret = -2

C5_Witness ==
  /\ gc_pc = "returned"
  /\ write_failed
  /\ Len(gc_reads) = 2
  /\ gc_ret = -2
  /\ gc_written > 0

\* The reads of the connection are sized as C6 says.
C6_ReadSizes ==
  \A i \in 1..Len(gc_reads) :
    IF gc_use_expected
    THEN /\ gc_reads[i].len < gc_expected
         /\ gc_reads[i].amount <= MIN(gc_expected - gc_reads[i].len, sizeof_c)
         /\ gc_reads[i].amount > 0
    ELSE gc_reads[i].amount = sizeof_c

\* With use_expected clear the loop ends on a non-positive read or on a write
\* error only.
C6_UnboundedLoopEnd ==
  (gc_pc = "returned" /\ ~gc_use_expected) =>
    \/ gc_ret = -2
    \/ gc_reads # <<>> /\ gc_reads[Len(gc_reads)].res <= 0

\* C6 as stated: the sizes of the reads, and with use_expected set and
\* expected = 0 no read at all and a return without error.
C6_ZeroExpectedNoError ==
  /\ C6_ReadSizes
  /\ C6_UnboundedLoopEnd
  /\ (gc_pc = "returned" /\ gc_use_expected /\ gc_expected = 0) =>
       gc_reads = <<>> /\ gc_ret >= 0

\* C6 (amended): the sizes of the reads; with use_expected set and
\* expected = 0 no read at all, and the value returned is 0 unless a write
\* failed while the pre-fetched buffer was flushed, and then it is -2.
C6_ZeroExpectedNoRead ==
  /\ C6_ReadSizes
  /\ C6_UnboundedLoopEnd
  /\ (gc_pc = "returned" /\ gc_use_expected /\ gc_expected = 0) =>
       /\ gc_reads = <<>>
       /\ gc_ret = (IF write_failed THEN -2 ELSE 0)

C6_Witness ==
  /\ gc_pc = "returned"
  /\ gc_use_expected
  /\ Len(gc_reads) = 3
  /\ gc_reads[3].amount = 1
  /\ gc_len = gc_expected

\* C7: opt.downloaded never decreases; the overflow is latched exactly when
\* the sum of the amounts passes the largest value of the type, and the
\* counter is then that largest value; once latched, nothing changes.
C7_SaturatingCounter ==
  [][ /\ opt_downloaded' >= opt_downloaded
      /\ opt_downloaded_overflow' <=> true_sum' > MaxCounter
      /\ ~opt_downloaded_overflow' => opt_downloaded' = true_sum'
      /\ opt_downloaded_overflow' => opt_downloaded' = MaxCounter
      /\ opt_downloaded_overflow =>
           UNCHANGED <<opt_downloaded, opt_downloaded_overflow>> ]_vars

C7_Witness ==
  /\ acct_op = "increase"
  /\ opt_downloaded_overflow
  /\ opt_downloaded = MaxCounter
  /\ true_sum = MaxCounter + 1

\* C8: downloaded_exceeds_quota returns 0 when no quota is set, 0 when the
\* overflow is latched, and otherwise non-zero exactly when opt.downloaded is
\* above opt.quota; it changes nothing.
C8_ExceedsQuota ==
  [][ acct_op' = "exceeds" =>
        /\ UNCHANGED <<opt_downloaded, opt_downloaded_overflow, opt_quota>>
        /\ opt_quota = 0 => exceeds_ret' = 0
        /\ opt_downloaded_overflow => exceeds_ret' = 0
        /\ (opt_quota # 0 /\ ~opt_downloaded_overflow) =>
             /\ exceeds_ret' \in {0, 1}
             /\ exceeds_ret' = 1 <=> opt_downloaded > opt_quota ]_vars

C8_Witness ==
  /\ acct_op = "exceeds"
  /\ opt_quota # 0
  /\ ~opt_downloaded_overflow
  /\ opt_downloaded = opt_quota
  /\ exceeds_ret = 0

\* C9: the first call of sleep_between_retrievals does not sleep and clears
\* first_retrieval, which is clear after every call and is never set again.
C9_FirstCallNeverSleeps ==
  [][ /\ (sleep_calls = 0 /\ sleep_calls' = 1) =>
           last_sleep' = NoSleep /\ ~first_retrieval'
      /\ sleep_calls' >= 1 => ~first_retrieval'
      /\ ~first_retrieval => ~first_retrieval' ]_vars

C9_Witness ==
  /\ sleep_calls = 1
  /\ ~first_retrieval
  /\ last_sleep = NoSleep
  /\ opt_wait # 0
  /\ opt_waitretry # 0
  /\ last_count > 1

\* C10: a call after the first sleeps MIN (count - 1, opt.waitretry) seconds
\* if opt.waitretry is set and count > 1, else opt.wait seconds if opt.wait is
\* set, else not at all.
C10_SleepDuration ==
  sleep_calls >= 2 =>
    last_sleep = (IF opt_waitretry # 0 /\ last_count > 1
                  THEN MIN(last_count - 1, opt_waitretry)
                  ELSE IF opt_wait # 0 THEN opt_wait
                  ELSE NoSleep)

C10_Witness ==
  /\ sleep_calls = 2
  /\ opt_waitretry = 5
  /\ last_count = 3
  /\ last_sleep = 2

\* C14 as stated: when the target of a redirection does not parse,
\* retrieve_url returns the URL error status, and hands the caller no local
\* file and no final URL.
C14_BadRedirectIsUrlError ==
  (ru_pc = "returned" /\ ru_exit = "line 340") =>
    /\ ru_result = "URLERROR"
    /\ ru_file = NULL
    /\ ru_newloc = NULL

\* C15: ftp_loop sees opt.recursive off on a hop reached through a
\* redirection and as it is on the first hop, and opt.recursive itself never
\* changes over a call of retrieve_url.
C15_FtpRecursionSuppressed ==
  [][ /\ opt_recursive' = opt_recursive
      /\ \A i \in 1..Len(ru_loops') :
           ru_loops'[i].loop = "ftp_loop" =>
             ru_loops'[i].recursive = (IF i > 1 THEN FALSE ELSE opt_recursive') ]_vars

C15_Witness ==
  /\ ru_pc = "returned"
  /\ opt_recursive
  /\ Len(ru_loops) = 2
  /\ ru_loops[2].loop = "ftp_loop"
  /\ ru_loops[2].recursive = FALSE

\* retrieve_url is past its last protocol loop, which reported a final status.
AtTerminalOutcome ==
  \/ ru_pc = "count"
  \/ ru_pc \in {"returned", "idle"} /\ ru_exit = "line 406"

\* C16: nothing is registered before the terminal outcome or on a return that
\* aborts; on the terminal outcome register_download is called once, with the
\* final URL and the file, exactly when there is a local file and RETROKF is
\* set, and register_html after it exactly when TEXTHTML is set as well.
C16_Registrations ==
  IF AtTerminalOutcome /\ ru_local_file # NULL /\ "RETROKF" \in ru_dt
  THEN LET last == ru_loops[Len(ru_loops)]
           url  == IF Len(ru_loops) = 1 THEN last.text ELSE last.url
           download == [reg |-> "register_download", url |-> url,
                        file |-> LocalFile(last.url)]
           html == [reg |-> "register_html", url |-> url,
                    file |-> LocalFile(last.url)]
       IN  ru_registered = (IF "TEXTHTML" \in ru_dt THEN <<download, html>>
                            ELSE <<download>>)
  ELSE ru_registered = <<>>

C16_Witness ==
  /\ ru_pc = "returned"
  /\ Len(ru_loops) = 2
  /\ Len(ru_registered) = 2
  /\ ru_registered[1].url = "http://h/b"
  /\ ru_file = LocalFile("http://h/b")

\* C17: no canonical URL is handed to a protocol loop twice by one call; the
\* set of redirections exists exactly from the first redirection followed or
\* found to be a cycle, and then holds the URLs dispatched so far and the
\* current one; a call starts without it.
C17_VisitedSet ==
  /\ \A i, j \in 1..Len(ru_loops) : ru_loops[i].url = ru_loops[j].url => i = j
  /\ redirections.table =>
       /\ redirections.keys = Dispatched(Len(ru_loops)) \cup {ru_u}
       /\ ru_loops # <<>>
       /\ ru_loops[1].result = "NEWLOCATION" /\ Target(1) # NULL
  /\ ~redirections.table =>
       /\ redirections.keys = {}
       /\ Len(ru_loops) <= 1
  /\ (ru_pc = "redirected" /\ ru_loops = <<>>) => ~redirections.table

C17_Witness ==
  /\ ru_pc = "redirected"
  /\ Len(ru_loops) = 2
  /\ redirections.keys = {"http://h/a", "http://h/b", "ftp://h/c"}
  /\ ru_u = "ftp://h/c"

\* The proxy applies to URL u, and the proxy configured for u, parsed.
ProxyApplies(u) ==
  opt_use_proxy /\ proxy_env[url_scheme(u)] # NULL /\ no_proxy_ok
ProxyOf(u) == url_parse(proxy_env[url_scheme(u)])
ProxyUsable(u) == ProxyOf(u) # NULL /\ url_scheme(ProxyOf(u)) = "SCHEME_HTTP"

\* C18: a hop to which an unusable proxy applies is handed to no protocol
\* loop, and retrieve_url returns PROXERR from it; a hop to which a usable
\* proxy applies goes to http_loop with that proxy whatever its scheme; a hop
\* to which no proxy applies goes to the loop of its scheme without proxy.
C18_ProxyDispatch ==
  /\ \A i \in 1..Len(ru_loops) :
       LET l == ru_loops[i] IN
         IF ProxyApplies(l.url)
         THEN ProxyUsable(l.url) /\ l.loop = "http_loop" /\ l.proxy = ProxyOf(l.url)
         ELSE /\ l.proxy = NULL
              /\ l.loop = (IF url_scheme(l.url) = "SCHEME_FTP" THEN "ftp_loop"
                           ELSE "http_loop")
  /\ (ru_u # NULL /\ ProxyApplies(ru_u) /\ ~ProxyUsable(ru_u)) =>
       /\ ru_u \notin Dispatched(Len(ru_loops))
       /\ ru_pc \in {"returned", "idle"} =>
            /\ ru_result = "PROXERR"
            /\ ru_exit \in {"line 250", "line 262", "line 271"}
  /\ ru_exit \in {"line 250", "line 262", "line 271"} =>
       ru_u # NULL /\ ProxyApplies(ru_u) /\ ~ProxyUsable(ru_u)

C18_Witness ==
  /\ ru_pc = "returned"
  /\ ru_result = "PROXERR"
  /\ Len(ru_loops) = 1
  /\ ru_loops[1].loop = "http_loop"
  /\ ru_loops[1].url = "ftp://h/c"
  /\ ru_loops[1].proxy = "http://proxy/"
  /\ ru_u = "http://h/b"

\* The bytes of get_contents are accounted for: *len is RESTVAL plus the
\* bytes written without error, and the progress was told of as many.
C20_BytesAccounted ==
  gc_pc # "idle" =>
    /\ gc_len = gc_restval + gc_written
    /\ opt_verbose => pg_total = gc_len - gc_restval
    /\ ~opt_verbose => pg_total = 0

\* C20 as stated: the accounting, and with use_expected set and
\* restval <= expected, *len is never above expected.
C20_LengthWithinExpected ==
  /\ C20_BytesAccounted
  /\ (gc_use_expected /\ gc_restval <= gc_expected) => gc_len <= gc_expected

\* C20 (amended): the accounting; and with use_expected set and
\* restval <= expected, no read of the connection takes *len above expected:
\* *len is above expected only by the pre-fetched bytes flushed from RBUF, and
\* then no read is made.
C20_LengthWithinExpectedByReads ==
  /\ C20_BytesAccounted
  /\ (gc_use_expected /\ gc_restval <= gc_expected /\ gc_len > gc_expected) =>
       /\ gc_reads = <<>>
       /\ gc_need_flush

C20_Witness ==
  /\ gc_pc = "returned"
  /\ opt_verbose
  /\ gc_use_expected
  /\ gc_restval = 5
  /\ gc_need_flush
  /\ Len(gc_reads) = 2
  /\ gc_len = gc_expected
  /\ pg_total = gc_len - gc_restval

\* The canonical URLs there are.
CanonicalUrls == {url_parse(t) : t \in OrigUrls \cup {uri_merge(b, l) : b \in OrigUrls, l \in Locations}} \ {NULL}

\* C19: a call of retrieve_url hands each canonical URL to a protocol loop at
\* most once, so it invokes no more loops than there are canonical URLs, and
\* it returns.
C19_RetrieveTerminates ==
  /\ [](/\ \A i, j \in 1..Len(ru_loops) :
             ru_loops[i].url = ru_loops[j].url => i = j
        /\ Len(ru_loops) <= Cardinality(CanonicalUrls))
  /\ (ru_pc \in {"redirected", "looped", "count"}) ~> (ru_pc = "returned")

C19_Witness ==
  /\ ru_pc = "returned"
  /\ Len(ru_loops) = 3
  /\ ru_exit = "line 369"
  /\ Target(3) = ru_loops[2].url


(***************************************************************************)
(* retrieve_from_file.                                                     *)
(***************************************************************************)

\* retrieve_from_file left its loop through the break of line 433.
QuotaStopped == rf_pc = "returned" /\ rf_left > 0

\* The 1-based position in the list of the URL cur_url points to.
CurrentItem == rf_n - rf_left + 1

\* C11: the quota is checked before each URL of the list. No retrieve_url
\* call (and so no recursive retrieval) is made for a URL at which the quota
\* is exceeded; once downloaded_exceeds_quota has returned true the function
\* has returned, with status QUOTEXC whatever the statuses of the URLs
\* already processed, and with no retrieval begun for that URL or a later one.
C11_QuotaStopsTheList ==
  /\ \A i \in 1..Len(rf_calls) : ~rf_calls[i]
  /\ (acct_op = "exceeds" /\ exceeds_ret = 1) =>
       /\ rf_pc = "returned"
       /\ rf_status = "QUOTEXC"
       /\ ru_pc = "idle"
       /\ Len(rf_calls) = CurrentItem - 1
       /\ Len(rf_items) = CurrentItem - 1
  /\ QuotaStopped => (OverQuota /\ rf_status = "QUOTEXC")
  /\ (rf_pc = "test" /\ rf_left > 0 /\ OverQuota) => ~ENABLED retrieve_from_file_call

\* C11 witness: the quota stops the list at its second URL, after a first
\* URL that was retrieved with success.
C11_Witness ==
  /\ QuotaStopped
  /\ CurrentItem = 2
  /\ rf_items[1].status = "RETROK"
  /\ rf_status = "QUOTEXC"

\* C12 as stated: *count is k when the quota stops the list at its k-th
\* URL, and n when the n URLs of the list are all processed.
C12_CountIncludesStop ==
  rf_pc = "returned" =>
    rf_count = (IF QuotaStopped THEN CurrentItem ELSE rf_n)

\* C12, amended: *count is the number of URLs retrieve_url was called for.
\* It is k - 1 when the quota stops the list at its k-th URL, which is not
\* counted, and n when the n URLs of the list are all processed.
C12_CountIsRetrieved ==
  rf_pc = "returned" =>
    /\ rf_count = Len(rf_calls)
    /\ rf_count = (IF QuotaStopped THEN CurrentItem - 1 ELSE rf_n)

\* C12 witness: the quota stops the list at its second URL and *count is 1.
C12_Witness ==
  /\ QuotaStopped
  /\ CurrentItem = 2
  /\ rf_count = 1

\* C13: the status returned is the worst of the list: it is RETROK only if
\* no URL gave a failure status and the quota was not exceeded, and the
\* failure of an earlier URL is not replaced by the success of a later one.
C13_WorstStatusReturned ==
  rf_pc = "returned" =>
    (rf_status = "RETROK" <=>
       /\ ~QuotaStopped
       /\ \A i \in 1..Len(rf_items) : rf_items[i].status = "RETROK")

=============================================================================
